---- MODULE Spec2Model ----
(***************************************************************************)
(* Model of MicroPython/main.py: the three-mode state machine driven by    *)
(* the button interrupt, the presence detector, the cancellable stepper    *)
(* sequence and the main control flow.                                     *)
(*                                                                         *)
(* The main flow is cut at every source line that reads or writes a        *)
(* variable shared with the interrupt handler, and at every sensor read    *)
(* and busy-wait of detect_presence and measure_distance; program          *)
(* positions are named after the line they are about to execute (L196 =    *)
(* "about to run line 196", P118 in detect_presence, D145 in               *)
(* measure_distance, M176 in motor_spin).  The interrupt handler runs to   *)
(* completion between any two such positions.  The display (oled,          *)
(* write15, write20) is an external collaborator without effect on the     *)
(* state modelled here.                                                    *)
(***************************************************************************)
EXTENDS Integers, Sequences, FiniteSets, TLC

(* ---- calibration values, main.py lines 15-23 ---- *)
action_after_seconds == 60
brightness_threshold == 25000
motion_threshold == 5
polling_interval_presence == 1
previous_distance_boot == 165
step_count == 2048

(* ---- bounds of the model ---- *)
MaxEdges == 3          \* button edges per behaviour
MaxRevolutions == 1    \* revolutions argument of motor_spin: 0..MaxRevolutions
MaxCalls == 2          \* calls made by the call drivers
EchoMicros == 9621     \* echo time of an object at the boot baseline, in us
DriftMicros == 291     \* spacing of the clock readings: 291 us is 4.99065 cm,
                       \* the largest step within motion_threshold

(* Distances are kept in units of 1/100000 cm, so that line 150
   (timepassed * 0.01715) is exact; Cm converts whole centimetres *)
Cm(x) == x * 100000

(* values pin_sfh300_adc.read_u16() may return: the largest one that is not
   bright and the smallest one that is *)
BrightnessReadings == {brightness_threshold, brightness_threshold + 1}
(* values utime.ticks_us() may return, in microseconds.  The counter wraps,
   so a reading may be smaller than the one taken before it *)
ClockReadings ==
    {0, EchoMicros + DriftMicros, EchoMicros + 2 * DriftMicros}
(* The readings drawn during one call: all of them when detect_presence is
   called on its own, the first two when main calls it; two readings already
   give an absent verdict, a jump, and a negative timepassed after a wrap *)
ClockReadingsAt(site) ==
    IF site = "idle" THEN ClockReadings ELSE {0, EchoMicros + DriftMicros}

(* step_sequence, lines 72-75; rows and pins are 0-based as in the source *)
step_sequence ==
    [r \in 0..3 |-> [p \in 0..3 |-> IF p = r THEN 1 ELSE 0]]
AllLow == [p \in 0..3 |-> 0]

VARIABLES
    mode_debug, mode_manual,      \* lines 51-52
    mode_switch, button_pushed,   \* lines 83-84
    previous_distance,            \* line 20, in units of 1/100000 cm
    motor_retract_steps,          \* line 70
    motor_pins,                   \* output level of pin_motor_1..4, lines 39-42, 76
    pc,                           \* position of the main control flow
    halted,                       \* "" or the fatal fault that ended the program
    presence_detected,            \* local of main
    time_since_presence,          \* local of main
    spin,                         \* locals of the running motor_spin call
    drv,                          \* what the callers of the call drivers hold
    meas,                         \* locals of detect_presence and measure_distance
    obs                           \* observers used only by the properties

vars == << mode_debug, mode_manual, mode_switch, button_pushed,
           previous_distance, motor_retract_steps, motor_pins, pc, halted,
           presence_detected, time_since_presence, spin, drv, obs, meas >>

(* ---------------------------------------------------------------------- *)
(* Values of the record variables when nothing is running                  *)
(* ---------------------------------------------------------------------- *)
SpinIdle ==
    [n |-> 0, dir |-> "False", i |-> 0, pos |-> 0, motor_step_counter |-> 0]
DrvIdle ==
    [calls |-> 0,       \* calls made so far
     returned |-> 0,    \* calls that have returned
     brightness |-> 0,  \* brightness sampled by the last returned call
     distance |-> 0,    \* distance measured by the last returned call
     baseline |-> 0,    \* previous_distance that call compared with
     slow |-> TRUE]     \* so far no bright sample and no jump between readings
MeasIdle ==
    [site |-> "none",   \* where detect_presence was called from
     brightness |-> -1,  \* local of detect_presence, line 118; -1 while unassigned
     brightness_detected |-> FALSE,  \* local of detect_presence, lines 115, 120
     signaloff |-> -1,  \* local of measure_distance, -1 while unassigned
     signalon |-> -1,   \* local of measure_distance, -1 while unassigned
     distance |-> -1,   \* local of detect_presence, line 121; -1 (which is
                        \* no multiple of 1715) while unassigned
     saw_high |-> FALSE,     \* the first loop has read the echo line as 1
     saw_low |-> FALSE,      \* the second loop has read the echo line as 0
     outcome |-> "none"]     \* of measure_distance: none | running | returned
ObsInit ==
    [edges |-> 0,            \* button edges handled so far
     polls |-> 0,            \* 1 once detect_presence has returned at least once
     last_distance |-> Cm(previous_distance_boot),  \* distance read by the last poll
     absent |-> 0,           \* absent verdicts in a row inside the tracking loops
     closes |-> 0,           \* AUTOMATIC close triggers since the last true verdict
     edge_in_loop |-> FALSE, \* an edge arrived inside the tracking loops
     sleeps_after |-> 0,     \* presence-interval sleeps since that edge
     polls_after |-> 0,      \* detect_presence calls since that edge
     steps_done |-> 0,       \* steps of the running sequence already driven
     abort_at |-> -1,        \* steps_done when button_pushed rose during the call
     edge_in_call |-> FALSE, \* an edge arrived during the motor_spin call
     auto_seen |-> FALSE,    \* the mode was AUTOMATIC during the AUTO test of line 193
     meas_edges |-> 0,       \* edges handled during the measure_distance call
     flag_exits |-> 0,       \* loops of main left on mode_switch since the last edge
     outcome |-> "none"]     \* none | running | completed | aborted

Cap(x, c) == IF x < c THEN x + 1 ELSE c

(* Positions of main inside the AUTOMATIC presence-tracking loops, lines 195-215 *)
TrackingPcs ==
    {"L195", "L196", "L197", "L200", "L201", "L202", "L203", "L204", "L205",
     "L207", "L210", "L213", "L214", "L215"}
ManualPcs == {"L220", "L221", "L224"}
DebugPcs == {"L231", "L232", "L234"}
SpinPcs ==
    {"M161", "M164", "M165", "M167", "M168", "M176", "M177", "M179", "M181"}
MeasurePcs ==
    {"D140", "D142", "D144", "D145", "D146", "D147", "D148", "D149", "D150"}
DetectPcs == {"P118", "P122"} \cup MeasurePcs

(* The position of main: the call site while detect_presence is running *)
Site == IF pc \in DetectPcs THEN meas.site ELSE pc

(* ---------------------------------------------------------------------- *)
(* Interrupt bridge: button_interrupt, lines 85-111                        *)
(* ---------------------------------------------------------------------- *)

(* Faulty variants of the transition, used to show that the mode properties
   depend on it: MANUAL goes straight back to AUTO; mode_manual is not
   cleared on MANUAL -> DEBUG *)
ButtonTransition_SkipsDebug(d, m) ==
    IF ~d /\ ~m THEN [debug |-> d, manual |-> TRUE, fault |-> FALSE]
    ELSE IF ~d /\ m THEN [debug |-> FALSE, manual |-> FALSE, fault |-> FALSE]
    ELSE IF d /\ ~m THEN [debug |-> FALSE, manual |-> FALSE, fault |-> FALSE]
    ELSE [debug |-> d, manual |-> m, fault |-> TRUE]

ButtonTransition_KeepsManual(d, m) ==
    IF ~d /\ ~m THEN [debug |-> d, manual |-> TRUE, fault |-> FALSE]
    ELSE IF ~d /\ m THEN [debug |-> TRUE, manual |-> m, fault |-> FALSE]
    ELSE IF d /\ ~m THEN [debug |-> FALSE, manual |-> FALSE, fault |-> FALSE]
    ELSE [debug |-> d, manual |-> m, fault |-> TRUE]

(* The if/elif chain of lines 92-111 as a function of the two mode flags *)
ButtonTransition(d, m) ==
    IF ~d /\ ~m THEN [debug |-> d, manual |-> TRUE, fault |-> FALSE]
    ELSE IF ~d /\ m THEN [debug |-> TRUE, manual |-> FALSE, fault |-> FALSE]
    ELSE IF d /\ ~m THEN [debug |-> FALSE, manual |-> FALSE, fault |-> FALSE]
    ELSE [debug |-> d, manual |-> m, fault |-> TRUE]

ObsEdge ==
    [obs EXCEPT
        !.edges = @ + 1,
        !.edge_in_loop = @ \/ Site \in TrackingPcs,
        !.abort_at = IF pc \in SpinPcs /\ ~button_pushed /\ @ = -1
                     THEN obs.steps_done ELSE @,
        !.edge_in_call = @ \/ pc \in SpinPcs,
        !.auto_seen = IF pc = "L193b"
                      THEN LET t == ButtonTransition(mode_debug, mode_manual)
                           IN  @ \/ (~t.fault /\ ~t.debug /\ ~t.manual)
                      ELSE @,
        !.meas_edges = IF pc \in MeasurePcs THEN @ + 1 ELSE @,
        !.flag_exits = 0]

button_interrupt ==
    /\ halted = ""
    /\ obs.edges < MaxEdges
    /\ button_pushed' = TRUE
    /\ LET t == ButtonTransition(mode_debug, mode_manual) IN
         IF t.fault
         THEN /\ motor_pins' = AllLow                  \* motor_cleanup()
              /\ halted' = "State machine error"       \* exit(1)
              /\ UNCHANGED << mode_debug, mode_manual, mode_switch >>
         ELSE /\ mode_debug' = t.debug
              /\ mode_manual' = t.manual
              /\ mode_switch' = TRUE
              /\ UNCHANGED << motor_pins, halted >>
    /\ obs' = ObsEdge
    /\ UNCHANGED << previous_distance, motor_retract_steps, pc,
                    presence_detected, time_since_presence, spin, drv, meas >>

(* ---------------------------------------------------------------------- *)
(* Ranging: measure_distance, lines 139-152.  Positions D140..D150 are the *)
(* lines about to run.  Every sample of pin_hcsr04_echo and every reading  *)
(* of utime.ticks_us() is an input; button edges are served between any    *)
(* two positions, also inside the two busy-wait loops.                     *)
(* ---------------------------------------------------------------------- *)

(* Line 150: timepassed * 0.01715, in units of 1/100000 cm *)
DistanceOf(timepassed) == timepassed * 1715

(* A step of measure_distance that changes only its locals and position *)
MeasureStep(next, m) ==
    /\ pc' = next
    /\ meas' = m
    /\ UNCHANGED << mode_debug, mode_manual, mode_switch, button_pushed,
                    previous_distance, motor_retract_steps, motor_pins,
                    halted, presence_detected, time_since_presence, spin, drv,
                    obs >>

(* Lines 140-141: pin_hcsr04_trigger.low(); utime.sleep_us(2) *)
measure_distance_D140 ==
    /\ halted = "" /\ pc = "D140"
    /\ MeasureStep("D142", meas)

(* Lines 142-143: pin_hcsr04_trigger.high(); utime.sleep_us(5) *)
measure_distance_D142 ==
    /\ halted = "" /\ pc = "D142"
    /\ MeasureStep("D144", meas)

(* Line 144: pin_hcsr04_trigger.low() *)
measure_distance_D144 ==
    /\ halted = "" /\ pc = "D144"
    /\ MeasureStep("D145", meas)

(* Line 145: while pin_hcsr04_echo.value() == 0 *)
measure_distance_D145 ==
    /\ halted = "" /\ pc = "D145"
    /\ \E echo \in {0, 1} :
         MeasureStep(IF echo = 0 THEN "D146" ELSE "D147",
                     [meas EXCEPT !.saw_high = echo = 1])

(* Line 146: signaloff = utime.ticks_us(); whatever the clock returns is
   stored *)
measure_distance_D146 ==
    /\ halted = "" /\ pc = "D146"
    /\ \E t \in ClockReadingsAt(meas.site) :
         MeasureStep("D145", [meas EXCEPT !.signaloff = t])

(* Faulty variant: the second loop is left whatever the echo line reads *)
measure_distance_D147_NoWait ==
    /\ halted = "" /\ pc = "D147"
    /\ \E echo \in {0, 1} :
         MeasureStep("D149", [meas EXCEPT !.saw_low = echo = 0])

(* Line 147: while pin_hcsr04_echo.value() == 1 *)
measure_distance_D147 ==
    /\ halted = "" /\ pc = "D147"
    /\ \E echo \in {0, 1} :
         MeasureStep(IF echo = 1 THEN "D148" ELSE "D149",
                     [meas EXCEPT !.saw_low = echo = 0])

(* Line 148: signalon = utime.ticks_us(); whatever the clock returns is
   stored, also a reading below signaloff *)
measure_distance_D148 ==
    /\ halted = "" /\ pc = "D148"
    /\ \E t \in ClockReadingsAt(meas.site) :
         MeasureStep("D147", [meas EXCEPT !.signalon = t])

(* Line 149: timepassed = signalon - signaloff; reading a local that was
   never assigned raises NameError, which neither detect_presence nor main
   catches: the program ends *)
measure_distance_D149 ==
    /\ halted = "" /\ pc = "D149"
    /\ IF meas.signaloff # -1 /\ meas.signalon # -1
       THEN /\ pc' = "D150"
            /\ UNCHANGED halted
       ELSE /\ halted' = "NameError"
            /\ UNCHANGED pc
    /\ UNCHANGED << mode_debug, mode_manual, mode_switch, button_pushed,
                    previous_distance, motor_retract_steps, motor_pins,
                    presence_detected, time_since_presence, spin, drv, obs,
                    meas >>

(* Lines 150-152: distance = timepassed * 0.01715; return(distance), to
   line 121 of detect_presence.  timepassed is the plain difference of line
   149 and is negative when signalon is the smaller reading *)
measure_distance_D150 ==
    /\ halted = "" /\ pc = "D150"
    /\ pc' = "P122"
    /\ meas' = [meas EXCEPT
                  !.distance = DistanceOf(meas.signalon - meas.signaloff),
                  !.signaloff = -1, !.signalon = -1,
                  !.outcome = "returned"]
    /\ obs' = [obs EXCEPT !.meas_edges = 0]
    /\ UNCHANGED << mode_debug, mode_manual, mode_switch, button_pushed,
                    previous_distance, motor_retract_steps, motor_pins,
                    halted, presence_detected, time_since_presence, spin, drv >>

measure_distance ==
    \/ measure_distance_D140 \/ measure_distance_D142 \/ measure_distance_D144
    \/ measure_distance_D145 \/ measure_distance_D146 \/ measure_distance_D147
    \/ measure_distance_D148 \/ measure_distance_D149 \/ measure_distance_D150

(* ---------------------------------------------------------------------- *)
(* Sensor fusion: detect_presence, lines 113-128.  P118 is the position    *)
(* before the brightness sample, P122 the position after measure_distance  *)
(* has returned to line 121.                                               *)
(* ---------------------------------------------------------------------- *)

(* Lines 119-120 *)
BrightnessDetected(brightness) == brightness > brightness_threshold

(* Faulty variant: motion is seen only when the distance grows *)
MotionDetected_OneSided(distance, baseline) ==
    distance > baseline + Cm(motion_threshold)

(* Lines 122-123 *)
MotionDetected(distance, baseline) ==
    \/ distance > baseline + Cm(motion_threshold)
    \/ distance < baseline - Cm(motion_threshold)

(* Faulty variant: the baseline is never replaced *)
BaselineAfter_Frozen(distance, baseline, verdict) == baseline

(* Faulty variant: the baseline is kept while presence is reported *)
BaselineAfter_KeptOnPresence(distance, baseline, verdict) ==
    IF verdict THEN baseline ELSE distance

(* Line 126: the baseline left behind by a call *)
BaselineAfter(distance, baseline, verdict) == distance

(* Where control continues after the call made at a call site *)
ReturnTo(site) ==
    CASE site = "L194" -> "L195"
      [] site = "L202" -> "L203"
      [] site = "L215" -> "L204"
      [] OTHER -> "idle"

ObsPoll(verdict, distance) ==
    [obs EXCEPT
        !.polls = 1,
        !.last_distance = distance,
        !.absent = IF verdict \/ meas.site = "L194" THEN 0
                   ELSE Cap(@, action_after_seconds + 1),
        !.closes = IF verdict THEN 0 ELSE @,
        !.polls_after = IF obs.edge_in_loop THEN Cap(@, 2) ELSE @]

(* What the caller of the call driver knows after a call made from "idle":
   the samples of the call, the baseline it compared with, and whether every
   call so far was dark and within motion_threshold of the reading before *)
DrvPoll(brightness, distance, baseline) ==
    IF meas.site # "idle" THEN drv
    ELSE [calls |-> drv.calls, returned |-> drv.returned + 1,
          brightness |-> brightness, distance |-> distance,
          baseline |-> baseline,
          slow |->
            LET last == IF drv.returned = 0
                        THEN Cm(previous_distance_boot)
                        ELSE drv.distance
            IN  /\ drv.slow
                /\ brightness <= brightness_threshold
                /\ distance - last <= Cm(motion_threshold)
                /\ last - distance <= Cm(motion_threshold)]

(* The call detect_presence() made at a call site, lines 113-117 *)
EnterDetectPresence(site) ==
    /\ pc' = "P118"
    /\ meas' = [MeasIdle EXCEPT !.site = site]
    /\ UNCHANGED << mode_debug, mode_manual, mode_switch, button_pushed,
                    previous_distance, motor_retract_steps, motor_pins,
                    halted, presence_detected, time_since_presence, spin, drv,
                    obs >>

(* Lines 118-121: brightness = measure_brightness(), the threshold test,
   and the call of measure_distance() *)
detect_presence_P118 ==
    /\ halted = "" /\ pc = "P118"
    /\ \E brightness \in BrightnessReadings :
         MeasureStep("D140",
                     [meas EXCEPT
                        !.brightness = brightness,
                        !.brightness_detected = BrightnessDetected(brightness),
                        !.outcome = "running"])

(* Lines 122-128 and the assignment of the result at the call site *)
detect_presence_P122 ==
    /\ halted = "" /\ pc = "P122"
    /\ LET distance == meas.distance
           verdict == \/ meas.brightness_detected
                      \/ MotionDetected(distance, previous_distance)
       IN  /\ presence_detected' = verdict
           /\ previous_distance' =
                  BaselineAfter(distance, previous_distance, verdict)
           /\ obs' = ObsPoll(verdict, distance)
           /\ drv' = DrvPoll(meas.brightness, distance, previous_distance)
    /\ pc' = ReturnTo(meas.site)
    /\ meas' = MeasIdle
    /\ UNCHANGED << mode_debug, mode_manual, mode_switch, button_pushed,
                    motor_retract_steps, motor_pins, halted,
                    time_since_presence, spin >>

detect_presence == detect_presence_P118 \/ detect_presence_P122

(* ---------------------------------------------------------------------- *)
(* Main control flow: main, lines 184-236                                  *)
(* ---------------------------------------------------------------------- *)
ObsLeave ==
    [obs EXCEPT !.absent = 0, !.edge_in_loop = FALSE,
                !.sleeps_after = 0, !.polls_after = 0]

(* Observer update when a loop of main is left because mode_switch read true *)
ObsExit(o) == [o EXCEPT !.flag_exits = Cap(@, 2)]

(* A step of main that only moves to position next *)
Goto(next) ==
    /\ pc' = next
    /\ UNCHANGED << mode_debug, mode_manual, mode_switch, button_pushed,
                    previous_distance, motor_retract_steps, motor_pins, halted,
                    presence_detected, time_since_presence, spin, drv, obs, meas >>

(* Faulty variant: the threshold is reached one poll early *)
AbsenceElapsed_OnePollEarly(t) ==
    t + polling_interval_presence >= action_after_seconds

(* Line 207: has presence been absent long enough *)
AbsenceElapsed(t) == t >= action_after_seconds

(* Lines 189-191: motor_cleanup(), oled.poweroff(), presence_detected = False *)
main_L189 ==
    /\ halted = "" /\ pc = "L189"
    /\ motor_pins' = AllLow
    /\ presence_detected' = FALSE
    /\ pc' = "L193a"
    /\ UNCHANGED << mode_debug, mode_manual, mode_switch, button_pushed,
                    previous_distance, motor_retract_steps, halted,
                    time_since_presence, spin, drv, obs, meas >>

(* Line 193, "not mode_debug": the first operand of the AUTO test *)
main_L193a ==
    /\ halted = "" /\ pc = "L193a"
    /\ pc' = IF mode_debug THEN "L218a" ELSE "L193b"
    /\ obs' = [obs EXCEPT !.auto_seen = ~mode_debug /\ ~mode_manual]
    /\ UNCHANGED << mode_debug, mode_manual, mode_switch, button_pushed,
                    previous_distance, motor_retract_steps, motor_pins, halted,
                    presence_detected, time_since_presence, spin, drv, meas >>

(* Line 193, "not mode_manual": the second operand of the AUTO test *)
main_L193b ==
    /\ halted = "" /\ pc = "L193b"
    /\ Goto(IF mode_manual THEN "L218a" ELSE "L194")

(* Line 194: presence_detected = detect_presence(), the call *)
main_L194 ==
    /\ halted = "" /\ pc = "L194"
    /\ EnterDetectPresence("L194")

(* Line 195: while presence_detected *)
main_L195 ==
    /\ halted = "" /\ pc = "L195"
    /\ pc' = IF presence_detected THEN "L196" ELSE "L216"
    /\ obs' = IF presence_detected THEN obs ELSE ObsLeave
    /\ UNCHANGED << mode_debug, mode_manual, mode_switch, button_pushed,
                    previous_distance, motor_retract_steps, motor_pins, halted,
                    presence_detected, time_since_presence, spin, drv, meas >>

(* Line 196: if mode_switch *)
main_L196 ==
    /\ halted = "" /\ pc = "L196"
    /\ Goto(IF mode_switch THEN "L197" ELSE "L200")

(* Lines 197-198: mode_switch = False; break *)
main_L197 ==
    /\ halted = "" /\ pc = "L197"
    /\ mode_switch' = FALSE
    /\ pc' = "L216"
    /\ obs' = ObsExit(ObsLeave)
    /\ UNCHANGED << mode_debug, mode_manual, button_pushed,
                    previous_distance, motor_retract_steps, motor_pins, halted,
                    presence_detected, time_since_presence, spin, drv, meas >>

(* Line 200: show_something() *)
main_L200 ==
    /\ halted = "" /\ pc = "L200"
    /\ Goto("L201")

(* Line 201: utime.sleep(polling_interval_presence) *)
main_L201 ==
    /\ halted = "" /\ pc = "L201"
    /\ pc' = "L202"
    /\ obs' = [obs EXCEPT !.sleeps_after = IF obs.edge_in_loop THEN Cap(@, 2) ELSE @]
    /\ UNCHANGED << mode_debug, mode_manual, mode_switch, button_pushed,
                    previous_distance, motor_retract_steps, motor_pins, halted,
                    presence_detected, time_since_presence, spin, drv, meas >>

(* Line 202: presence_detected = detect_presence(), the call *)
main_L202 ==
    /\ halted = "" /\ pc = "L202"
    /\ EnterDetectPresence("L202")

(* Line 203: time_since_presence = 0 *)
main_L203 ==
    /\ halted = "" /\ pc = "L203"
    /\ time_since_presence' = 0
    /\ pc' = "L204"
    /\ UNCHANGED << mode_debug, mode_manual, mode_switch, button_pushed,
                    previous_distance, motor_retract_steps, motor_pins, halted,
                    presence_detected, spin, drv, obs, meas >>

(* Line 204: while not presence_detected *)
main_L204 ==
    /\ halted = "" /\ pc = "L204"
    /\ Goto(IF ~presence_detected THEN "L205" ELSE "L195")

(* Faulty variant: the inner loop has no mode_switch checkpoint *)
main_L205_NoCheckpoint ==
    /\ halted = "" /\ pc = "L205"
    /\ Goto("L207")

(* Lines 205-206: if mode_switch: break *)
main_L205 ==
    /\ halted = "" /\ pc = "L205"
    /\ pc' = IF mode_switch THEN "L195" ELSE "L207"
    /\ obs' = IF mode_switch THEN ObsExit(obs) ELSE obs
    /\ UNCHANGED << mode_debug, mode_manual, mode_switch, button_pushed,
                    previous_distance, motor_retract_steps, motor_pins, halted,
                    presence_detected, time_since_presence, spin, drv, meas >>

(* Line 207: if time_since_presence >= action_after_seconds *)
main_L207 ==
    /\ halted = "" /\ pc = "L207"
    /\ Goto(IF AbsenceElapsed(time_since_presence) THEN "L210" ELSE "L213")

(* Lines 210-212: the close action of AUTO mode: print, oled.poweroff(), break *)
main_L210 ==
    /\ halted = "" /\ pc = "L210"
    /\ pc' = "L195"
    /\ obs' = [obs EXCEPT !.closes = Cap(@, 2)]
    /\ UNCHANGED << mode_debug, mode_manual, mode_switch, button_pushed,
                    previous_distance, motor_retract_steps, motor_pins, halted,
                    presence_detected, time_since_presence, spin, drv, meas >>

(* Line 213: utime.sleep(polling_interval_presence) *)
main_L213 ==
    /\ halted = "" /\ pc = "L213"
    /\ pc' = "L214"
    /\ obs' = [obs EXCEPT !.sleeps_after = IF obs.edge_in_loop THEN Cap(@, 2) ELSE @]
    /\ UNCHANGED << mode_debug, mode_manual, mode_switch, button_pushed,
                    previous_distance, motor_retract_steps, motor_pins, halted,
                    presence_detected, time_since_presence, spin, drv, meas >>

(* Line 214: time_since_presence += polling_interval_presence *)
main_L214 ==
    /\ halted = "" /\ pc = "L214"
    /\ time_since_presence' = time_since_presence + polling_interval_presence
    /\ pc' = "L215"
    /\ UNCHANGED << mode_debug, mode_manual, mode_switch, button_pushed,
                    previous_distance, motor_retract_steps, motor_pins, halted,
                    presence_detected, spin, drv, obs, meas >>

(* Line 215: presence_detected = detect_presence(), the call *)
main_L215 ==
    /\ halted = "" /\ pc = "L215"
    /\ EnterDetectPresence("L215")

(* Line 216: utime.sleep(polling_interval_standby) *)
main_L216 ==
    /\ halted = "" /\ pc = "L216"
    /\ Goto("L218a")

(* Line 218, "not mode_debug": the first operand of the MANUAL test *)
main_L218a ==
    /\ halted = "" /\ pc = "L218a"
    /\ Goto(IF mode_debug THEN "L229a" ELSE "L218b")

(* Line 218, "mode_manual": the second operand of the MANUAL test *)
main_L218b ==
    /\ halted = "" /\ pc = "L218b"
    /\ Goto(IF mode_manual THEN "L220" ELSE "L229a")

(* Line 220: if mode_switch *)
main_L220 ==
    /\ halted = "" /\ pc = "L220"
    /\ Goto(IF mode_switch THEN "L221" ELSE "L224")

(* Faulty variant: the MANUAL checkpoint clears the flag and stays in the loop *)
main_L221_NoBreak ==
    /\ halted = "" /\ pc = "L221"
    /\ mode_switch' = FALSE
    /\ pc' = "L224"
    /\ obs' = ObsExit(obs)
    /\ UNCHANGED << mode_debug, mode_manual, button_pushed,
                    previous_distance, motor_retract_steps, motor_pins, halted,
                    presence_detected, time_since_presence, spin, drv, meas >>

(* Lines 221-222: mode_switch = False; break *)
main_L221 ==
    /\ halted = "" /\ pc = "L221"
    /\ mode_switch' = FALSE
    /\ pc' = "L229a"
    /\ obs' = ObsExit(obs)
    /\ UNCHANGED << mode_debug, mode_manual, button_pushed,
                    previous_distance, motor_retract_steps, motor_pins, halted,
                    presence_detected, time_since_presence, spin, drv, meas >>

(* Lines 224-227: the close action of MANUAL mode: print, motor_cleanup(),
   oled.poweroff(), write15.text(...) *)
main_L224 ==
    /\ halted = "" /\ pc = "L224"
    /\ motor_pins' = AllLow
    /\ pc' = "L220"
    /\ UNCHANGED << mode_debug, mode_manual, mode_switch, button_pushed,
                    previous_distance, motor_retract_steps, halted,
                    presence_detected, time_since_presence, spin, drv, obs, meas >>

(* Line 229, "mode_debug": the first operand of the DEBUG test *)
main_L229a ==
    /\ halted = "" /\ pc = "L229a"
    /\ Goto(IF mode_debug THEN "L229b" ELSE "L189")

(* Line 229, "not mode_manual": the second operand of the DEBUG test *)
main_L229b ==
    /\ halted = "" /\ pc = "L229b"
    /\ Goto(IF mode_manual THEN "L189" ELSE "L231")

(* Line 231: if mode_switch *)
main_L231 ==
    /\ halted = "" /\ pc = "L231"
    /\ Goto(IF mode_switch THEN "L232" ELSE "L234")

(* Lines 232-233: mode_switch = False; break *)
main_L232 ==
    /\ halted = "" /\ pc = "L232"
    /\ mode_switch' = FALSE
    /\ pc' = "L189"
    /\ obs' = ObsExit(obs)
    /\ UNCHANGED << mode_debug, mode_manual, button_pushed,
                    previous_distance, motor_retract_steps, motor_pins, halted,
                    presence_detected, time_since_presence, spin, drv, meas >>

(* Lines 234-236: motor_cleanup(), oled.poweroff(), write15.text(...) *)
main_L234 ==
    /\ halted = "" /\ pc = "L234"
    /\ motor_pins' = AllLow
    /\ pc' = "L231"
    /\ UNCHANGED << mode_debug, mode_manual, mode_switch, button_pushed,
                    previous_distance, motor_retract_steps, halted,
                    presence_detected, time_since_presence, spin, drv, obs, meas >>

main ==
    \/ main_L189 \/ main_L193a \/ main_L193b \/ main_L194 \/ main_L195
    \/ main_L196 \/ main_L197 \/ main_L200 \/ main_L201 \/ main_L202
    \/ main_L203 \/ main_L204 \/ main_L205 \/ main_L207 \/ main_L210
    \/ main_L213 \/ main_L214 \/ main_L215 \/ main_L216
    \/ main_L218a \/ main_L218b \/ main_L220 \/ main_L221 \/ main_L224
    \/ main_L229a \/ main_L229b \/ main_L231 \/ main_L232 \/ main_L234
    \/ detect_presence \/ measure_distance

(* State after the module-level code has run and main() is entered, line 254 *)
Init ==
    /\ mode_debug = FALSE /\ mode_manual = FALSE
    /\ mode_switch = FALSE /\ button_pushed = FALSE
    /\ previous_distance = Cm(previous_distance_boot)
    /\ motor_retract_steps = 0
    /\ motor_pins = AllLow
    /\ pc = "L189"
    /\ halted = ""
    /\ presence_detected = FALSE
    /\ time_since_presence = 0
    /\ spin = SpinIdle
    /\ drv = DrvIdle
    /\ meas = MeasIdle
    /\ obs = ObsInit

Next == main \/ button_interrupt

Spec == Init /\ [][Next]_vars

(* The main flow always takes its next step; button edges are not forced *)
FairSpec == Spec /\ WF_vars(main)

(* ---------------------------------------------------------------------- *)
(* Actuator driver: motor_cleanup, lines 154-156; motor_spin, lines 158-181 *)
(* Positions M161..M181 are the lines of motor_spin about to run.          *)
(* ---------------------------------------------------------------------- *)
Directions == {"True", "False", "None"}

(* Lines 154-156 *)
motor_cleanup == AllLow

(* Faulty variant: the phase index always increments *)
NextStepCounter_IgnoresDirection(c, dir) == (c + 1) % 4

(* Lines 168-171: the phase index after a step in the given direction *)
NextStepCounter(c, dir) ==
    IF dir = "True" THEN (c - 1) % 4 ELSE (c + 1) % 4

(* Line 178: the step count recorded when the sequence is aborted *)
RetractSteps(i) == i

(* Lines 158-163: entry with the arguments bound, motor_retract_steps = 0,
   i = 0, motor_step_counter = 0 *)
motor_spin_M161 ==
    /\ halted = "" /\ pc = "M161"
    /\ motor_retract_steps' = 0
    /\ spin' = [spin EXCEPT !.i = 0, !.motor_step_counter = 0]
    /\ pc' = "M164"
    /\ UNCHANGED << mode_debug, mode_manual, mode_switch, button_pushed,
                    previous_distance, motor_pins, halted,
                    presence_detected, time_since_presence, drv, obs, meas >>

(* Line 164: motor_cleanup() *)
motor_spin_M164 ==
    /\ halted = "" /\ pc = "M164"
    /\ motor_pins' = motor_cleanup
    /\ pc' = "M165"
    /\ UNCHANGED << mode_debug, mode_manual, mode_switch, button_pushed,
                    previous_distance, motor_retract_steps, halted,
                    presence_detected, time_since_presence, spin, drv, obs, meas >>

(* Line 165: for i in range(revolutions*step_count); the function returns
   when the range is exhausted *)
motor_spin_M165 ==
    /\ halted = "" /\ pc = "M165"
    /\ IF spin.pos < spin.n
       THEN /\ spin' = [spin EXCEPT !.i = spin.pos, !.pos = spin.pos + 1]
            /\ pc' = "M167"
            /\ obs' = obs
       ELSE /\ spin' = spin
            /\ pc' = "idle"
            /\ obs' = [obs EXCEPT !.outcome = "completed"]
    /\ UNCHANGED << mode_debug, mode_manual, mode_switch, button_pushed,
                    previous_distance, motor_retract_steps, motor_pins, halted,
                    presence_detected, time_since_presence, drv, meas >>

(* Lines 166-167: drive the four pins with the current row *)
motor_spin_M167 ==
    /\ halted = "" /\ pc = "M167"
    /\ motor_pins' = step_sequence[spin.motor_step_counter]
    /\ obs' = [obs EXCEPT !.steps_done = @ + 1]
    /\ pc' = "M168"
    /\ UNCHANGED << mode_debug, mode_manual, mode_switch, button_pushed,
                    previous_distance, motor_retract_steps, halted,
                    presence_detected, time_since_presence, spin, drv, meas >>

(* Faulty variant: the invalid-direction branch halts without motor_cleanup() *)
motor_spin_M168_NoCleanup ==
    /\ halted = "" /\ pc = "M168"
    /\ IF spin.dir \in {"True", "False"}
       THEN /\ spin' = [spin EXCEPT !.motor_step_counter =
                            NextStepCounter(@, spin.dir)]
            /\ pc' = "M176"
            /\ UNCHANGED halted
       ELSE /\ halted' = "direction error"
            /\ UNCHANGED << spin, pc >>
    /\ UNCHANGED << mode_debug, mode_manual, mode_switch, button_pushed,
                    previous_distance, motor_retract_steps, motor_pins,
                    presence_detected, time_since_presence, drv, obs, meas >>

(* Lines 168-175: advance the phase index, or halt on an invalid direction *)
motor_spin_M168 ==
    /\ halted = "" /\ pc = "M168"
    /\ IF spin.dir \in {"True", "False"}
       THEN /\ spin' = [spin EXCEPT !.motor_step_counter =
                            NextStepCounter(@, spin.dir)]
            /\ pc' = "M176"
            /\ UNCHANGED << motor_pins, halted >>
       ELSE /\ motor_pins' = motor_cleanup
            /\ halted' = "direction error"
            /\ UNCHANGED << spin, pc >>
    /\ UNCHANGED << mode_debug, mode_manual, mode_switch, button_pushed,
                    previous_distance, motor_retract_steps,
                    presence_detected, time_since_presence, drv, obs, meas >>

(* Line 176: if button_pushed *)
motor_spin_M176 ==
    /\ halted = "" /\ pc = "M176"
    /\ Goto(IF button_pushed THEN "M177" ELSE "M181")

(* Lines 177-178: motor_cleanup(); motor_retract_steps = i *)
motor_spin_M177 ==
    /\ halted = "" /\ pc = "M177"
    /\ motor_pins' = motor_cleanup
    /\ motor_retract_steps' = RetractSteps(spin.i)
    /\ pc' = "M179"
    /\ UNCHANGED << mode_debug, mode_manual, mode_switch, button_pushed,
                    previous_distance, halted,
                    presence_detected, time_since_presence, spin, drv, obs, meas >>

(* Lines 179-180: button_pushed = False; break, which ends the function *)
motor_spin_M179 ==
    /\ halted = "" /\ pc = "M179"
    /\ button_pushed' = FALSE
    /\ pc' = "idle"
    /\ obs' = [obs EXCEPT !.outcome = "aborted"]
    /\ UNCHANGED << mode_debug, mode_manual, mode_switch,
                    previous_distance, motor_retract_steps, motor_pins, halted,
                    presence_detected, time_since_presence, spin, drv, meas >>

(* Line 181: utime.sleep(step_sleep) *)
motor_spin_M181 ==
    /\ halted = "" /\ pc = "M181"
    /\ Goto("M165")

motor_spin ==
    \/ motor_spin_M161 \/ motor_spin_M164 \/ motor_spin_M165
    \/ motor_spin_M167 \/ motor_spin_M168 \/ motor_spin_M176
    \/ motor_spin_M177 \/ motor_spin_M179 \/ motor_spin_M181

(* ---------------------------------------------------------------------- *)
(* motor_spin called on its own: main never calls it, so its properties    *)
(* are stated for a caller that invokes motor_spin(revolutions,            *)
(* motor_direction) up to MaxCalls times while button edges arrive.        *)
(* ---------------------------------------------------------------------- *)
CallMotorSpin ==
    /\ halted = "" /\ pc = "idle"
    /\ drv.calls < MaxCalls
    /\ \E revolutions \in 0..MaxRevolutions, motor_direction \in Directions :
         spin' = [n |-> revolutions * step_count, dir |-> motor_direction,
                  i |-> 0, pos |-> 0, motor_step_counter |-> 0]
    /\ drv' = [drv EXCEPT !.calls = @ + 1]
    /\ obs' = [obs EXCEPT !.steps_done = 0, !.abort_at = -1,
                          !.edge_in_call = FALSE, !.outcome = "running"]
    /\ pc' = "M161"
    /\ UNCHANGED << mode_debug, mode_manual, mode_switch, button_pushed,
                    previous_distance, motor_retract_steps, motor_pins, halted,
                    presence_detected, time_since_presence, meas >>

InitDriver ==
    /\ mode_debug = FALSE /\ mode_manual = FALSE
    /\ mode_switch = FALSE /\ button_pushed = FALSE
    /\ previous_distance = Cm(previous_distance_boot)
    /\ motor_retract_steps = 0
    /\ motor_pins = AllLow
    /\ pc = "idle"
    /\ halted = ""
    /\ presence_detected = FALSE
    /\ time_since_presence = 0
    /\ spin = SpinIdle
    /\ drv = DrvIdle
    /\ meas = MeasIdle
    /\ obs = ObsInit

NextMotor == CallMotorSpin \/ motor_spin \/ button_interrupt

SpecMotor == InitDriver /\ [][NextMotor]_vars

(* ---------------------------------------------------------------------- *)
(* detect_presence called on its own, up to MaxCalls times, while button   *)
(* edges arrive: the call runs lines 113-128 and measure_distance as it    *)
(* does under main, and returns to the caller                              *)
(* ---------------------------------------------------------------------- *)
CallDetectPresence ==
    /\ halted = "" /\ pc = "idle"
    /\ drv.calls < MaxCalls
    /\ drv' = [drv EXCEPT !.calls = @ + 1]
    /\ meas' = [MeasIdle EXCEPT !.site = "idle"]
    /\ pc' = "P118"
    /\ UNCHANGED << mode_debug, mode_manual, mode_switch, button_pushed,
                    previous_distance, motor_retract_steps, motor_pins, halted,
                    presence_detected, time_since_presence, spin, obs >>

NextDetect ==
    CallDetectPresence \/ detect_presence \/ measure_distance
        \/ button_interrupt

SpecDetect == InitDriver /\ [][NextDetect]_vars

(* ====================================================================== *)
(* Properties                                                              *)
(* ====================================================================== *)
ModeCycle == << "AUTOMATIC", "MANUAL", "CALIBRATION" >>

Mode ==
    IF ~mode_debug /\ ~mode_manual THEN "AUTOMATIC"
    ELSE IF ~mode_debug /\ mode_manual THEN "MANUAL"
    ELSE IF mode_debug /\ ~mode_manual THEN "CALIBRATION"
    ELSE "INVALID"

Abs(x) == IF x < 0 THEN -x ELSE x

(* C1: after N button edges, interleaved in any way with the steps of main,
   the operating mode is element (N mod 3) of AUTOMATIC, MANUAL, CALIBRATION;
   main itself never moves the mode. *)
C1_ModeAfterEdges == Mode = ModeCycle[(obs.edges % 3) + 1]

(* Three edges have wrapped the cycle while main sits in the tracking loops *)
C1_Witness == obs.edges = 3 /\ Mode = "AUTOMATIC" /\ pc \in TrackingPcs

(* C10: the operating mode is always exactly one of the three modes:
   mode_debug and mode_manual are never both true, and the "State machine
   error" branch of button_interrupt is never taken. *)
C10_ExactlyOneMode ==
    /\ ~(mode_debug /\ mode_manual)
    /\ halted # "State machine error"

(* A full cycle of edges has been handled while main was in the DEBUG loop *)
C10_Witness == obs.edges >= 3 /\ Mode = "AUTOMATIC" /\ pc \in DebugPcs

(* C7: after every detect_presence call previous_distance is the distance
   read by that call, whatever the verdict; before the first call it is the
   boot value; no step of button_interrupt or of the mode loops moves it. *)
C7_BaselineIsLastReading ==
    previous_distance =
        IF obs.polls = 0 THEN Cm(previous_distance_boot) ELSE obs.last_distance

(* A call during which the clock wrapped reported presence and still moved
   the baseline, to a negative distance; a button edge and a step of the
   MANUAL loop followed *)
C7_Witness ==
    /\ obs.polls = 1 /\ presence_detected
    /\ previous_distance = DistanceOf(0 - (EchoMicros + DriftMicros))
    /\ obs.edges > 0 /\ pc \in ManualPcs

(* C8: from a button edge that arrives inside the AUTOMATIC tracking loops
   until main has left both loops, main sleeps at most one more presence
   interval and calls detect_presence at most once more. *)
C8_SwitchLatency ==
    obs.edge_in_loop => obs.sleeps_after <= 1 /\ obs.polls_after <= 1

(* The edge arrived before the sleep of the inner loop; after that sleep and
   one more poll main is at the inner checkpoint with the flag set *)
C8_Witness ==
    /\ obs.edge_in_loop /\ obs.sleeps_after = 1 /\ obs.polls_after = 1
    /\ pc = "L205" /\ mode_switch /\ time_since_presence > 1

(* every call of detect_presence returns: main is outside it again and again *)
EveryCallReturns == []<>(pc \notin DetectPcs)

(* tracking has started (presence was just detected) and no edge has come *)
C4_Tracking == pc = "L196" /\ obs.edges = 0
(* the close action is triggered, or the hypothesis of C4 has ended: a later
   poll reported presence again, or a button edge arrived *)
C4_ClosedOrReleased ==
    \/ pc = "L210"
    \/ pc \in {"L203", "L204"} /\ presence_detected
    \/ obs.edges > 0

(* C4: in AUTOMATIC mode without button edges, once presence was detected
   and every later verdict is absent, the close action triggers: only when
   time_since_presence has reached action_after_seconds, after at least
   action_after_seconds / polling_interval_presence absent polls in a row,
   at most once per detected presence, and, when every detect_presence call
   returns, after finitely many polls. *)
C4_CloseAfterAbsence ==
    /\ [](pc = "L210" =>
            /\ time_since_presence >= action_after_seconds
            /\ obs.absent * polling_interval_presence >= action_after_seconds)
    /\ [](obs.edges = 0 => obs.closes <= 1)
    /\ (EveryCallReturns => (C4_Tracking ~> C4_ClosedOrReleased))

(* The close action has just run, exactly at the threshold, with no edge *)
C4_Witness ==
    /\ obs.edges = 0 /\ obs.closes = 1 /\ pc = "L195"
    /\ time_since_presence = action_after_seconds
    /\ obs.absent = action_after_seconds + 1

(* C5: every close action of main runs an actuation sequence: the step that
   performs the close action (line 210-212 in AUTOMATIC, lines 224-227 in
   MANUAL) enters motor_spin. *)
C5_CloseRunsActuator ==
    [][(pc \in {"L210", "L224"} /\ pc' # pc) => (pc' = "M161")]_vars

(* main runs only the code of the current mode: the loop of MANUAL or of
   DEBUG, or for AUTOMATIC any position outside those two loops *)
InBranchOfMode ==
    CASE Mode = "AUTOMATIC" -> pc \notin (ManualPcs \cup DebugPcs)
      [] Mode = "MANUAL" -> pc \in ManualPcs
      [] Mode = "CALIBRATION" -> pc \in DebugPcs
      [] OTHER -> FALSE

(* C9: once the button edges have stopped, and if every detect_presence
   call returns, main eventually runs the branch of the mode that is then
   current with mode_switch false, and stays there. *)
C9_SettlesInCurrentMode ==
    EveryCallReturns => <>[](InBranchOfMode /\ ~mode_switch)


(* C3: whenever motor_spin is not executing (before a call and after every
   return, completed or aborted) all four motor pins are low. *)
C3_PinsLowOutsideSequence == pc = "idle" => motor_pins = AllLow

(* C2: if button_pushed became true during a motor_spin call when k of the
   n requested steps had been driven (0 <= k < n), the call has returned
   early, motor_retract_steps = k and all four motor pins are low. *)
C2_AbortRecordsSteps ==
    (pc = "idle" /\ obs.abort_at >= 0 /\ obs.abort_at < spin.n) =>
        /\ obs.outcome = "aborted"
        /\ motor_retract_steps = obs.abort_at
        /\ motor_pins = AllLow

(* C6: detect_presence returns true exactly when the brightness is above
   brightness_threshold or the distance read is more than motion_threshold
   away from the stored baseline, in either direction; in particular a
   brightness above the threshold gives true whatever the distance. *)
C6_VerdictIsBrightOrMoved ==
    (pc = "idle" /\ drv.returned > 0) =>
        /\ presence_detected <=>
              \/ drv.brightness > brightness_threshold
              \/ Abs(drv.distance - drv.baseline) > Cm(motion_threshold)
        /\ drv.brightness > brightness_threshold => presence_detected

(* A second call, on a baseline left by the first, where the distance fell
   by more than the threshold in dim light and presence was reported *)
C6_Witness ==
    /\ pc = "idle" /\ drv.returned = 2 /\ presence_detected
    /\ drv.brightness = brightness_threshold
    /\ drv.baseline # Cm(previous_distance_boot)
    /\ drv.distance < drv.baseline - Cm(motion_threshold)

(* C11: whenever the program has halted on a fatal fault (the state machine
   error of button_interrupt, the invalid direction of motor_spin) all four
   motor pins are low, also when a phase was driven just before the fault. *)
C11_HaltedWithPinsLow == halted # "" => motor_pins = AllLow

(* motor_spin halted on an invalid direction right after it had driven the
   first row, while button edges had arrived *)
C11_Witness ==
    /\ halted = "direction error" /\ obs.steps_done = 1 /\ obs.edges > 0

(* C12: a motor_spin call during which no button edge arrives runs all the
   steps it was asked for: an edge from before the call does not abort it. *)
C12_StaleEdgeDoesNotAbort ==
    (pc = "idle" /\ obs.outcome \in {"completed", "aborted"}
                 /\ ~obs.edge_in_call) =>
        obs.outcome = "completed" /\ obs.steps_done = spin.n

(* C13: one button edge makes main leave only the loop that was running when
   it arrived: since the latest edge at most one loop has exited because it
   read mode_switch true. *)
C13_OneLoopExitPerEdge == obs.flag_exits <= 1

(* C14: main is about to call detect_presence in the AUTO branch (line 194)
   only if the mode was AUTOMATIC at some instant while the condition of
   line 193 was evaluated. *)
C14_AutoBranchOnlyFromAutomatic == pc = "L194" => obs.auto_seen

(* the row of the phase table that step i of a sequence must drive *)
C15_Row(i, dir) == IF dir = "True" THEN (0 - i) % 4 ELSE i % 4

(* C15: right after the pin writes of step i (line 167) the pins carry row
   (i mod 4) of the phase table for direction False and row ((-i) mod 4) for
   direction True, and exactly one pin is high. *)
C15_StepDrivesRow ==
    (pc = "M168" /\ spin.dir \in {"True", "False"}) =>
        /\ motor_pins = step_sequence[C15_Row(spin.i, spin.dir)]
        /\ Cardinality({p \in 0..3 : motor_pins[p] = 1}) = 1

C15_Witness ==
    /\ pc = "M168" /\ spin.dir = "True" /\ spin.i = 5
    /\ motor_pins = step_sequence[3]

(* C16: while no brightness sample has exceeded brightness_threshold and
   every distance reading has differed from the reading before it (the boot
   baseline for the first call) by at most motion_threshold, detect_presence
   has returned false, whatever the total drift. *)
C16_SlowDriftNeverDetected ==
    (pc = "idle" /\ drv.returned > 0 /\ drv.slow) => ~presence_detected

C16_Witness ==
    /\ pc = "idle" /\ drv.returned = 2 /\ drv.slow /\ ~presence_detected
    /\ Abs(drv.distance - Cm(previous_distance_boot)) > Cm(motion_threshold)

(* C18: at a loop-top checkpoint of main that is about to read mode_switch
   as false, the operating mode is the mode of the loop being executed. *)
C18_LoopRunsInItsMode ==
    ~mode_switch =>
        /\ pc \in {"L196", "L205"} => Mode = "AUTOMATIC"
        /\ pc = "L220" => Mode = "MANUAL"
        /\ pc = "L231" => Mode = "CALIBRATION"

C18_Witness ==
    /\ pc = "L205" /\ ~mode_switch /\ obs.edges = 3 /\ Mode = "AUTOMATIC"

(* C17: measure_distance is past its two loops only after the first loop
   read the echo line high and the second loop read it low; while every
   sample has read low the call is still in its first loop, while every
   later sample has read high it is still in its second loop; button edges
   handled during the call have advanced the mode and left mode_switch set,
   and main has left no loop since: control is still inside the call. *)
C17_ReturnsOnlyAfterHighThenLow ==
    /\ pc \in {"D149", "D150", "P122"} => meas.saw_high /\ meas.saw_low
    /\ (pc \in MeasurePcs \ {"D140", "D142", "D144"} /\ ~meas.saw_high) =>
           pc \in {"D145", "D146"}
    /\ (pc \in MeasurePcs /\ meas.saw_high /\ ~meas.saw_low) =>
           pc \in {"D147", "D148"}
    /\ (pc \in MeasurePcs /\ obs.meas_edges > 0) =>
           /\ mode_switch /\ button_pushed
           /\ obs.flag_exits = 0
           /\ Mode = ModeCycle[(obs.edges % 3) + 1]

(* The call made at line 215 is still in its first loop, which has run its
   body at least once, after two button edges arrived during the call *)
C17_Witness ==
    /\ pc = "D146" /\ meas.site = "L215" /\ meas.signaloff # -1
    /\ ~meas.saw_high /\ obs.meas_edges = 2 /\ Mode = "CALIBRATION"

(* C19: when measure_distance is about to compute timepassed (line 149),
   signaloff and signalon have both been assigned during this call. *)
C19_TimestampsAssigned ==
    pc = "D149" => meas.signaloff # -1 /\ meas.signalon # -1

====
